---- MODULE Spec2Model ----
(***************************************************************************)
(* Model of the VOB -> MP4 conversion backend: the task table kept by      *)
(* progress.py, the orchestrator of processing.py, the download and upload *)
(* workers of file_operations.py and the conversion worker of              *)
(* video_processing.py.                                                    *)
(*                                                                         *)
(* The backend is a single-threaded asyncio program: code between two      *)
(* awaits runs without interleaving.  Each action below is one such        *)
(* segment of one coroutine; a poll of the task table sees exactly the     *)
(* states between actions.                                                 *)
(***************************************************************************)
EXTENDS Integers, Sequences, FiniteSets, Bags, TLC

\* ------------------------------------------------------------------ bounds
\* Seven families of runs are explored.  A run's limits are fixed when it
\* starts (variable limits) and bound what the clients and the environment
\* (remote store, disk, encoder) may do in it:
\*   - one file, transferred in up to MaxChunks chunks, with up to MaxFaults
\*     failures of the environment and up to MaxTimeouts read timeouts in
\*     a row on the encoder's diagnostic stream, polled by a client;
\*   - one batch of up to BatchFiles empty files, with up to BatchFaults
\*     failures, polled by a client;
\*   - one task of up to MaxFiles empty files in an environment that does
\*     not fail, where the batch may name a file twice: more workers than
\*     permits;
\*   - up to MaxTasks tasks of SharedFiles empty files together, in an
\*     environment that does not fail: tasks sharing one semaphore set;
\*   - one empty file in an environment that does not fail, whose parent
\*     identifier has up to MaxParentLen and whose display name up to
\*     MaxNameLen characters;
\*   - one batch of up to BatchFiles empty files in an environment that
\*     does not fail, whose display names differ in the extension only
\*     ("n.1", "n.2", ...);
\*   - one batch of up to CONCURRENT + 1 empty files, one more than a class
\*     has permits, with up to QueueFaults failures.
\* In every other run the file with id k is called "nk"; but for the fifth
\* family all files lie in the folder "p".
MaxChunks   == 2
MaxFaults   == 5
BatchFiles  == 2
BatchFaults == 2
MaxFiles    == 4
MaxTasks    == 2
SharedFiles == 2
MaxParentLen == 2
MaxNameLen   == 3
MaxTimeouts  == 2
QueueFaults  == 1

\* ------------------------------------------------------- program constants
CONCURRENT        == 3           \* config.py: permits of every class
RETRIES_PER_CHUNK == 5           \* config.py
CHUNK_SIZE        == 62914560    \* config.py: 60 MB

Runs ==
    { [tasks |-> 1, files |-> 1,
       chunks |-> MaxChunks, faults |-> MaxFaults,
       polls |-> TRUE, repeats |-> FALSE,
       names |-> FALSE, stems |-> FALSE, timeouts |-> MaxTimeouts],
      [tasks |-> 1, files |-> BatchFiles,
       chunks |-> 0, faults |-> BatchFaults,
       polls |-> TRUE, repeats |-> FALSE,
       names |-> FALSE, stems |-> FALSE, timeouts |-> 0],
      [tasks |-> 1, files |-> MaxFiles,
       chunks |-> 0, faults |-> 0, polls |-> FALSE, repeats |-> TRUE,
       names |-> FALSE, stems |-> FALSE, timeouts |-> 0],
      [tasks |-> MaxTasks, files |-> SharedFiles,
       chunks |-> 0, faults |-> 0, polls |-> FALSE, repeats |-> FALSE,
       names |-> FALSE, stems |-> FALSE, timeouts |-> 0],
      [tasks |-> 1, files |-> 1,
       chunks |-> 0, faults |-> 0, polls |-> FALSE, repeats |-> FALSE,
       names |-> TRUE, stems |-> FALSE, timeouts |-> 0],
      [tasks |-> 1, files |-> BatchFiles,
       chunks |-> 0, faults |-> 0, polls |-> FALSE, repeats |-> FALSE,
       names |-> FALSE, stems |-> TRUE, timeouts |-> 0],
      [tasks |-> 1, files |-> CONCURRENT + 1,
       chunks |-> 0, faults |-> QueueFaults, polls |-> FALSE, repeats |-> FALSE,
       names |-> FALSE, stems |-> FALSE, timeouts |-> 0] }

Tasks   == 1..MaxTasks
Classes == {"download", "conversion", "upload"}

\* None of Python, for a duration or a frame count that was not found.
None == 0

\* A probe that found nothing, or has not run yet.
NoProbe == [duration |-> None, frames |-> None]

\* The duration (seconds) and the frame count a probe can find, and the
\* counters (frame=, time=) the encoder's diagnostic lines carry: 4 of 7 is
\* reported as 57 percent, 14 of 7 - a counter twice the probed total - as
\* 200 percent.
ProbedTotal == 7
Counters    == {4, 14}

\* Status codes the remote store answers to a byte-range PUT; ClientError
\* stands for an aiohttp.ClientError raised by the request.
ClientError == 0
Responses   == {200, 201, 202, 500, ClientError}

VARIABLES
    progress_state,     \* progress.py: task id -> progress record
    file_ids,           \* per task: the submitted list of file ids
    pc,                 \* per task: position of process_selected_files
    download_tasks,     \* per task: position -> download worker state
    conversion_tasks,   \* per task: position -> conversion worker state
    upload_tasks,       \* per task: position -> upload worker state
    semaphores,         \* class -> free permits
    refunds,            \* per task: calls of refund_credits_on_failure
    faults,             \* failures of the environment so far
    response,           \* what the step just taken answered, if it was a poll
    limits              \* the limits of this run, an element of Runs

vars == <<progress_state, file_ids, pc, download_tasks, conversion_tasks,
          upload_tasks, semaphores, refunds, faults, response, limits>>

\* --------------------------------------------------------------- helpers
Min(a, b) == IF a < b THEN a ELSE b

RECURSIVE SumOver(_, _)
SumOver(f, S) ==
    IF S = {} THEN 0
    ELSE LET x == CHOOSE y \in S : TRUE IN f[x] + SumOver(f, S \ {x})

\* The lists of a progress record (completed_downloads, completed_conversions,
\* completed_uploads, failed_files) are used by the program through append,
\* membership and len() only; they are kept as bags: the elements with their
\* multiplicities, without the order of arrival.
Len_(list) == BagCardinality(list)

Append_(list, e) == list (+) SetToBag({e})

NoWorkers == [i \in {} |-> 0]

\* -------------------------------------------------------------- file names
\* A name is the sequence of its characters.  Range(s) is their set.
Range(s) == {s[k] : k \in DOMAIN s}

\* Sequences of 1 to n characters of an alphabet.
Strings(alphabet, n) == UNION {[1..k -> alphabet] : k \in 1..n}

\* Index of the last, and of the first, occurrence of character c in s.
LastIndex(s, c) == CHOOSE k \in DOMAIN s : s[k] = c /\ \A j \in DOMAIN s : s[j] = c => j <= k

FirstIndex(s, c) == CHOOSE k \in DOMAIN s : s[k] = c /\ \A j \in DOMAIN s : s[j] = c => k <= j

\* f"{parent_id}-{filename}", the base name of the downloaded file.
LocalName(parent_id, filename) == parent_id \o <<"-">> \o filename

\* os.path.splitext(base)[0]: the extension starts at the last dot, unless
\* only dots come before it.
SplitextRoot(base) ==
    IF "." \in Range(base)
          /\ \E k \in 1..(LastIndex(base, ".") - 1) : base[k] # "."
    THEN SubSeq(base, 1, LastIndex(base, ".") - 1)
    ELSE base

\* os.path.splitext(os.path.basename(vob_path))[0] + ".mp4"
mp4_filename(vob_path) == SplitextRoot(vob_path) \o <<".", "m", "p", "4">>

\* base_name.split("-", 1) if "-" in base_name else (None, base_name); an
\* empty sequence stands for None and for the empty string, which
\* "if not parent_id" treats alike.
SplitBaseName(base_name) ==
    IF "-" \in Range(base_name)
    THEN <<SubSeq(base_name, 1, FirstIndex(base_name, "-") - 1),
           SubSeq(base_name, FirstIndex(base_name, "-") + 1, Len(base_name))>>
    ELSE <<<<>>, base_name>>

\* The decimal digit of a file id.
Digit(k) == <<"1", "2", "3", "4", "5", "6", "7", "8", "9">>[k]

\* dict.update(kwargs): every key of kw overwrites the record's value.
Merge(rec, kw) ==
    [k \in DOMAIN rec |-> IF k \in DOMAIN kw THEN kw[k] ELSE rec[k]]

\* ------------------------------------------------------------ progress.py
\* Argument tuples <<completed, len(active), sum(active), total>> for which
\* the double-precision evaluation of
\*     ((completed + (len(active) * active_progress / 100)) / total) * 100
\* lands just below the exact quotient, so that int() yields one less than
\* floor((100*completed + sum) / total).  Tabulated for total <= 6,
\* completed + len(active) <= total and percentages drawn from
\* {0, 25, 33, 50, 57, 66, 75, 100, 200}.
FloatShortfall ==
    { <<0, 1, 57, 1>>, <<0, 2, 58, 2>>, <<0, 2, 114, 2>>, <<0, 2, 116, 2>>,
      <<0, 1, 57, 3>>, <<0, 2, 57, 3>>, <<0, 2, 114, 3>>, <<0, 3, 57, 3>>,
      <<0, 3, 114, 3>>, <<0, 3, 165, 3>>, <<0, 3, 171, 3>>,
      <<0, 3, 174, 3>>, <<0, 2, 116, 4>>, <<0, 3, 116, 4>>,
      <<0, 3, 232, 4>>, <<0, 4, 116, 4>>, <<0, 4, 228, 4>>,
      <<0, 4, 232, 4>>, <<1, 3, 164, 4>>, <<0, 3, 140, 5>>,
      <<0, 3, 165, 5>>, <<0, 3, 290, 5>>, <<0, 4, 140, 5>>,
      <<0, 4, 165, 5>>, <<0, 4, 280, 5>>, <<0, 4, 290, 5>>,
      <<0, 4, 575, 5>>, <<0, 5, 140, 5>>, <<0, 5, 165, 5>>,
      <<0, 5, 280, 5>>, <<0, 5, 290, 5>>, <<0, 5, 330, 5>>,
      <<0, 5, 455, 5>>, <<0, 5, 575, 5>>, <<0, 5, 580, 5>>,
      <<1, 3, 180, 5>>, <<1, 3, 190, 5>>, <<1, 3, 475, 5>>,
      <<1, 4, 180, 5>>, <<1, 4, 190, 5>>, <<1, 4, 230, 5>>,
      <<1, 4, 475, 5>>, <<2, 2, 90, 5>>, <<2, 3, 90, 5>>, <<2, 3, 375, 5>>,
      <<3, 2, 275, 5>>, <<0, 2, 114, 6>>, <<0, 3, 114, 6>>,
      <<0, 3, 174, 6>>, <<0, 4, 114, 6>>, <<0, 4, 174, 6>>,
      <<0, 4, 228, 6>>, <<0, 4, 348, 6>>, <<0, 5, 114, 6>>,
      <<0, 5, 174, 6>>, <<0, 5, 228, 6>>, <<0, 5, 330, 6>>,
      <<0, 5, 348, 6>>, <<0, 5, 456, 6>>, <<0, 6, 114, 6>>,
      <<0, 6, 174, 6>>, <<0, 6, 228, 6>>, <<0, 6, 330, 6>>,
      <<0, 6, 336, 6>>, <<0, 6, 342, 6>>, <<0, 6, 348, 6>>,
      <<0, 6, 456, 6>>, <<1, 3, 164, 6>>, <<1, 4, 164, 6>>,
      <<1, 4, 230, 6>>, <<1, 4, 248, 6>>, <<1, 5, 164, 6>>,
      <<1, 5, 230, 6>>, <<1, 5, 248, 6>>, <<2, 3, 148, 6>>,
      <<2, 4, 148, 6>> }

\* int(((completed + (len(active) * active_progress / 100)) / total) * 100)
\* with active_progress = sum(active.values()) / len(active); total > 0.
PhaseProgress(completed, active, total) ==
    LET n == Cardinality(DOMAIN active)
        s == SumOver(active, DOMAIN active)
        q == (100 * completed + s) \div total
    IN  IF <<completed, n, s, total>> \in FloatShortfall THEN q - 1 ELSE q

\* int(phase_progress * 0.30), int(... * 0.40), int(... * 0.25): the double
\* product truncates to the exact quotient for every phase_progress met here.
Weighted(phase_progress, weight) == (phase_progress * weight) \div 100

\* The recomputation of update_progress for one phase.
Recompute(rec, active, completed, floor, weight) ==
    LET total == rec.total_files
        pp    == PhaseProgress(completed, active, total)
    IN  IF total > 0
        THEN [rec EXCEPT !.files_completed  = completed,
                         !.phase_progress   = Min(pp, 100),
                         !.overall_progress = floor + Weighted(pp, weight)]
        ELSE [rec EXCEPT !.files_completed = completed]

\* The files current_file lists (or counts as "+n more"): the keys of the
\* three active maps, each with the direction its arrow shows.  The empty
\* set stands for the empty string.
active_files(rec) ==
    {<<"download", f>> : f \in DOMAIN rec.active_downloads}
       \cup {<<"convert", f>> : f \in DOMAIN rec.active_conversions}
       \cup {<<"upload", f>> : f \in DOMAIN rec.active_uploads}

\* if active_files: progress_state[task_id]["current_file"] = ...
Display(rec) ==
    IF active_files(rec) # {}
    THEN [rec EXCEPT !.current_file = active_files(rec)]
    ELSE rec

\* update_progress(task_id, **kwargs) applied to an existing record.
\* The merged record and the recomputed one are each bound as an element of
\* a singleton, so that they are computed once wherever the update is
\* evaluated.
update_progress(rec, kw) ==
    CHOOSE shown \in
        { Display(recomputed) :
            recomputed \in
              { CASE r.current_phase = "downloading" ->
                       Recompute(r, r.active_downloads,
                                 Len_(r.completed_downloads), 5, 30)
                  [] r.current_phase = "converting" ->
                       Recompute(r, r.active_conversions,
                                 Len_(r.completed_conversions), 35, 40)
                  [] r.current_phase = "uploading" ->
                       Recompute(r, r.active_uploads,
                                 Len_(r.completed_uploads), 75, 25)
                  [] OTHER -> r
                : r \in {Merge(rec, kw)} } } : TRUE

\* A write that starts from a stale, empty copy of the map.
PutIntoStaleCopy(active, filename, progress) ==
    [k \in {filename} |-> progress]

\* dict[filename] = progress
Put(active, filename, progress) ==
    [k \in DOMAIN active \cup {filename} |->
        IF k = filename THEN progress ELSE active[k]]

\* dict.pop(filename, None)
Pop(active, filename) ==
    [k \in DOMAIN active \ {filename} |-> active[k]]

\* if filename not in completed: completed.append(filename)
AppendNew(completed, filename) ==
    IF BagIn(filename, completed) THEN completed
    ELSE Append_(completed, filename)

\* update_file_progress(task_id, filename, operation, progress, completed)
update_file_progress(rec, filename, operation, progress, completed) ==
    LET r ==
        CASE operation = "download" ->
               IF completed
               THEN [rec EXCEPT
                       !.active_downloads = Pop(@, filename),
                       !.completed_downloads = AppendNew(@, filename)]
               ELSE [rec EXCEPT !.active_downloads = Put(@, filename, progress)]
          [] operation = "convert" ->
               IF completed
               THEN [rec EXCEPT
                       !.active_conversions = Pop(@, filename),
                       !.completed_conversions = AppendNew(@, filename)]
               ELSE [rec EXCEPT !.active_conversions = Put(@, filename, progress)]
          [] operation = "upload" ->
               IF completed
               THEN [rec EXCEPT
                       !.active_uploads = Pop(@, filename),
                       !.completed_uploads = AppendNew(@, filename)]
               ELSE [rec EXCEPT !.active_uploads = Put(@, filename, progress)]
          [] OTHER -> rec
    IN  update_progress(r, [x \in {} |-> 0])

\* A failure entry that names the upload phase whatever phase failed.
FailedAsUpload(rec, kind, filename) ==
    [rec EXCEPT !.failed_files = Append_(@, <<"Upload failed", filename>>)]

\* progress_state[task_id]["failed_files"].append(entry)
Failed(rec, kind, filename) ==
    [rec EXCEPT !.failed_files = Append_(@, <<kind, filename>>)]

\* ------------------------------------------------------------- responses
\* No poll was answered by the step just taken.
NoResponse == [task |-> 0, status |-> 0, content |-> [detail |-> ""]]

\* Every step of the pipeline: it answers no poll.
Quiet == response' = NoResponse

\* --------------------------------------------------------------- Init
Init ==
    /\ progress_state = [t \in {} |-> 0]
    /\ file_ids = [t \in Tasks |-> <<>>]
    /\ pc = [t \in Tasks |-> "unsubmitted"]
    /\ download_tasks = [t \in Tasks |-> NoWorkers]
    /\ conversion_tasks = [t \in Tasks |-> NoWorkers]
    /\ upload_tasks = [t \in Tasks |-> NoWorkers]
    /\ semaphores = [c \in Classes |-> CONCURRENT]
    /\ refunds = [t \in Tasks |-> 0]
    /\ faults = 0
    /\ response = NoResponse
    /\ limits \in Runs

\* The name under which the worker at position i of task t reports its
\* file to the task table: file_path in download_file_by_id and upload_file,
\* os.path.basename(vob_path) in convert_vob_to_mp4.  All files of a session
\* lie in one directory per stage; a path is modelled by its base name.
DownloadName(t, i) == download_tasks[t][i].file_path

ConvertName(t, i) == conversion_tasks[t][i].vob_path

UploadName(t, i) == upload_tasks[t][i].file_path

Submitted == SumOver([t \in Tasks |-> Len(file_ids[t])], Tasks)

\* ------------------------------------------------------- task submission
\* A submission that runs the first segment of the pipeline before it
\* returns the handle.
convert_files_started(t, ids, cost) ==
    /\ pc[t] = "unsubmitted"
    /\ \A u \in Tasks : u < t => pc[u] # "unsubmitted"
    /\ t <= limits.tasks
    /\ Submitted + Len(ids) <= limits.files
    /\ file_ids' = [file_ids EXCEPT ![t] = ids]
    /\ progress_state' =
         [u \in DOMAIN progress_state \cup {t} |->
            IF u = t
            THEN [ overall_progress |-> 5,
                   current_phase |-> "downloading",
                   phase_progress |-> 0,
                   files_completed |-> 0,
                   total_files |-> Len(ids),
                   active_downloads |-> NoWorkers,
                   active_conversions |-> NoWorkers,
                   active_uploads |-> NoWorkers,
                   completed_downloads |-> EmptyBag,
                   completed_conversions |-> EmptyBag,
                   completed_uploads |-> EmptyBag,
                   failed_files |-> EmptyBag,
                   current_file |-> {},
                   cost |-> cost ]
            ELSE progress_state[u]]
    /\ pc' = [pc EXCEPT ![t] = "file_infos"]
    /\ UNCHANGED <<download_tasks, conversion_tasks, upload_tasks,
                   semaphores, refunds, faults, limits>>
    /\ Quiet

\* convert_files: create the task record and start process_selected_files
\* in the background.  ids is the submitted list of file ids, cost says
\* whether the request carries user_id and estimated_cost.
convert_files(t, ids, cost) ==
    /\ pc[t] = "unsubmitted"
    /\ \A u \in Tasks : u < t => pc[u] # "unsubmitted"
    /\ t <= limits.tasks
    /\ Submitted + Len(ids) <= limits.files
    /\ file_ids' = [file_ids EXCEPT ![t] = ids]
    /\ progress_state' =
         [u \in DOMAIN progress_state \cup {t} |->
            IF u = t
            THEN [ overall_progress |-> 0,
                   current_phase |-> "initializing",
                   phase_progress |-> 0,
                   files_completed |-> 0,
                   total_files |-> Len(ids),
                   active_downloads |-> NoWorkers,
                   active_conversions |-> NoWorkers,
                   active_uploads |-> NoWorkers,
                   completed_downloads |-> EmptyBag,
                   completed_conversions |-> EmptyBag,
                   completed_uploads |-> EmptyBag,
                   failed_files |-> EmptyBag,
                   current_file |-> {},
                   cost |-> cost ]
            ELSE progress_state[u]]
    /\ pc' = [pc EXCEPT ![t] = "start"]
    /\ UNCHANGED <<download_tasks, conversion_tasks, upload_tasks,
                   semaphores, refunds, faults, limits>>
    /\ Quiet


\* A finished worker keeps only its outcome.
Rec(t) == progress_state[t]

SetRec(t, r) == progress_state' = [progress_state EXCEPT ![t] = r]

\* int((k / n) * 100) for k chunks out of n > 0.
PercentOf(k, n) == (100 * k) \div n

\* A gather that returns as soon as one of its coroutines has ended.
FinishedFirst(workers) ==
    \E i \in DOMAIN workers : workers[i].pc \in {"returned", "none", "raised"}

\* await asyncio.gather(*tasks, return_exceptions=True) returns when every
\* coroutine has ended.
Finished(workers) ==
    \A i \in DOMAIN workers : workers[i].pc \in {"returned", "none", "raised"}

\* ------------------------------------------------------------ semaphores
\* async with semaphore: entry takes a permit when one is free, every exit
\* gives it back.
CanAcquireAtZero(class) == semaphores[class] >= 0

CanAcquire(class) == semaphores[class] > 0

Acquire(class) == semaphores' = [semaphores EXCEPT ![class] = @ - 1]

\* An exit of the gated section that keeps the permit.
ReleaseNothing(class) == UNCHANGED semaphores

Release(class) == semaphores' = [semaphores EXCEPT ![class] = @ + 1]

\* One more failure of the remote store, the disk or the encoder.
Fault == faults < limits.faults /\ faults' = faults + 1

\* ------------------------------------------- process_selected_files, start
\* update_progress(overall_progress=5, current_phase="downloading") and the
\* creation of the get_file_info coroutines.
process_start(t) ==
    /\ pc[t] = "start"
    /\ SetRec(t, update_progress(Rec(t),
                 [overall_progress |-> 5, current_phase |-> "downloading"]))
    /\ pc' = [pc EXCEPT ![t] = "file_infos"]
    /\ UNCHANGED <<file_ids, download_tasks, conversion_tasks, upload_tasks,
                   semaphores, refunds, faults, limits>>
    /\ Quiet

\* gather(get_file_info...) returns: valid are the positions whose lookup
\* did not raise, names the display names the lookups found; one download
\* coroutine is created for each of them.
gather_file_infos(t, valid, names) ==
    /\ pc[t] = "file_infos"
    /\ valid \subseteq DOMAIN file_ids[t]
    /\ DOMAIN names = valid
    /\ LET lost == Len(file_ids[t]) - Cardinality(valid)
       IN  faults + lost <= limits.faults /\ faults' = faults + lost
    /\ download_tasks' = [download_tasks EXCEPT ![t] =
          [i \in valid |-> [pc |-> "queued", downloaded |-> 0,
                            chunks |-> 0, length |-> FALSE,
                            filename |-> names[i], parent_id |-> <<>>,
                            file_path |-> <<>>]]]
    /\ pc' = [pc EXCEPT ![t] = "downloads"]
    /\ UNCHANGED <<progress_state, file_ids, conversion_tasks, upload_tasks,
                   semaphores, refunds, limits>>
    /\ Quiet

\* ------------------------------------------------------ download_file_by_id
DownloadAt(t, i, at) ==
    /\ pc[t] = "downloads"
    /\ i \in DOMAIN download_tasks[t]
    /\ download_tasks[t][i].pc = at

SetDownload(t, i, w) ==
    download_tasks' = [download_tasks EXCEPT ![t][i] = w]

\* A worker that has ended: its outcome and, when it returned, file_path.
DownloadEnded(w, outcome) ==
    [w EXCEPT !.pc = outcome, !.downloaded = 0, !.chunks = 0, !.length = FALSE]

\* async with semaphore_download
download_acquire(t, i) ==
    /\ DownloadAt(t, i, "queued")
    /\ CanAcquire("download")
    /\ Acquire("download")
    /\ SetDownload(t, i, [download_tasks[t][i] EXCEPT !.pc = "metadata"])
    /\ UNCHANGED <<progress_state, file_ids, pc, conversion_tasks,
                   upload_tasks, refunds, faults, limits>>
    /\ Quiet

\* Token exchange and metadata call.  On success the local path is built
\* from the parent id of the answer and registered with progress 0; an
\* answer with an empty parent id is a failure of the remote store.  On
\* failure the handler formats its message with file_path, which is not
\* bound yet: the handler itself raises and no entry reaches failed_files.
download_metadata(t, i, ok, parent_id) ==
    /\ DownloadAt(t, i, "metadata")
    /\ IF ok
       THEN /\ SetRec(t, update_file_progress(Rec(t),
                    LocalName(parent_id, download_tasks[t][i].filename),
                    "download", 0, FALSE))
            /\ SetDownload(t, i, [download_tasks[t][i] EXCEPT
                  !.pc = "content", !.parent_id = parent_id,
                  !.file_path = LocalName(parent_id, download_tasks[t][i].filename)])
            /\ IF parent_id = <<>> THEN Fault ELSE UNCHANGED faults
            /\ UNCHANGED semaphores
       ELSE /\ Fault
            /\ SetDownload(t, i, DownloadEnded(download_tasks[t][i], "raised"))
            /\ Release("download")
            /\ UNCHANGED progress_state
    /\ UNCHANGED <<file_ids, pc, conversion_tasks, upload_tasks, refunds, limits>>
    /\ Quiet

\* An except branch that leaves the gated section with its permit.
DownloadFailsKeepingPermit(t, i) ==
    /\ Fault
    /\ SetRec(t, Failed(Rec(t), "Download failed", DownloadName(t, i)))
    /\ SetDownload(t, i, DownloadEnded(download_tasks[t][i], "raised"))
    /\ UNCHANGED semaphores

\* The except branch once file_path is bound: one entry, then re-raise.
DownloadFails(t, i) ==
    /\ Fault
    /\ SetRec(t, Failed(Rec(t), "Download failed", DownloadName(t, i)))
    /\ SetDownload(t, i, DownloadEnded(download_tasks[t][i], "raised"))
    /\ Release("download")

\* The content request: n chunks will follow; length says whether the
\* response carries a content-length.
download_content(t, i, ok, n, length) ==
    /\ DownloadAt(t, i, "content")
    /\ IF ok
       THEN /\ SetDownload(t, i, [download_tasks[t][i] EXCEPT
                  !.pc = "streaming", !.chunks = n, !.length = length])
            /\ UNCHANGED <<progress_state, semaphores, faults>>
       ELSE DownloadFails(t, i)
    /\ UNCHANGED <<file_ids, pc, conversion_tasks, upload_tasks, refunds, limits>>
    /\ Quiet

\* One iteration of the chunk loop: write, count, report.
download_chunk(t, i, ok) ==
    /\ DownloadAt(t, i, "streaming")
    /\ LET w == download_tasks[t][i]
       IN  /\ w.downloaded < w.chunks
           /\ IF ok
              THEN /\ SetDownload(t, i, [w EXCEPT !.downloaded = @ + 1])
                   /\ IF w.length
                      THEN SetRec(t, update_file_progress(Rec(t), DownloadName(t, i), "download",
                                       PercentOf(w.downloaded + 1, w.chunks), FALSE))
                      ELSE UNCHANGED progress_state
                   /\ UNCHANGED <<semaphores, faults>>
              ELSE DownloadFails(t, i)
    /\ UNCHANGED <<file_ids, pc, conversion_tasks, upload_tasks, refunds, limits>>
    /\ Quiet

\* End of the body: the file is marked complete and its path returned.
download_finish(t, i) ==
    /\ DownloadAt(t, i, "streaming")
    /\ download_tasks[t][i].downloaded = download_tasks[t][i].chunks
    /\ SetRec(t, update_file_progress(Rec(t), DownloadName(t, i), "download", 100, TRUE))
    /\ SetDownload(t, i, DownloadEnded(download_tasks[t][i], "returned"))
    /\ Release("download")
    /\ UNCHANGED <<file_ids, pc, conversion_tasks, upload_tasks, refunds, faults, limits>>
    /\ Quiet


\* ------------------------------------- process_selected_files, conversions
\* A filter that keeps every ended coroutine, whatever its result.
ReturnedOrFailed(workers) ==
    {i \in DOMAIN workers : workers[i].pc \in {"returned", "none", "raised"}}

\* [f for f in results if not isinstance(f, Exception)] and "elif result":
\* the coroutines that returned a path.
Returned(workers) == {i \in DOMAIN workers : workers[i].pc = "returned"}

\* gather(download...) returns: the conversion phase is entered with
\* overall_progress=35 and one conversion coroutine per downloaded file.
convert_stage(t) ==
    /\ pc[t] = "downloads"
    /\ Finished(download_tasks[t])
    /\ SetRec(t, update_progress(Rec(t),
                 [overall_progress |-> 35, current_phase |-> "converting",
                  files_completed |-> 0]))
    /\ conversion_tasks' = [conversion_tasks EXCEPT ![t] =
          [i \in Returned(download_tasks[t]) |->
             [pc |-> "queued", vob_path |-> download_tasks[t][i].file_path,
              probe |-> NoProbe, fallback |-> None, percent |-> 0,
              timeouts |-> 0]]]
    /\ pc' = [pc EXCEPT ![t] = "conversions"]
    /\ UNCHANGED <<file_ids, download_tasks, upload_tasks, semaphores,
                   refunds, faults, limits>>
    /\ Quiet

\* ------------------------------------------------------ convert_vob_to_mp4
ConvertAt(t, i, at) ==
    /\ pc[t] = "conversions"
    /\ i \in DOMAIN conversion_tasks[t]
    /\ conversion_tasks[t][i].pc = at

SetConvert(t, i, w) ==
    conversion_tasks' = [conversion_tasks EXCEPT ![t][i] = w]

\* A worker that has ended: its outcome and the path it was given.
ConvertEnded(w, outcome) ==
    [w EXCEPT !.pc = outcome, !.probe = NoProbe, !.fallback = None,
              !.percent = 0, !.timeouts = 0]

\* async with semaphore_conversion, the output directory and the first
\* report.  When the directory cannot be made, filename is not bound yet and
\* the handler itself raises: the coroutine ends with an exception.
convert_acquire(t, i, ok) ==
    /\ ConvertAt(t, i, "queued")
    /\ CanAcquire("conversion")
    /\ IF ok
       THEN /\ Acquire("conversion")
            /\ SetRec(t, update_file_progress(Rec(t), ConvertName(t, i), "convert", 0, FALSE))
            /\ SetConvert(t, i, [conversion_tasks[t][i] EXCEPT !.pc = "probe"])
            /\ UNCHANGED faults
       ELSE /\ Fault
            /\ SetConvert(t, i, ConvertEnded(conversion_tasks[t][i], "raised"))
            /\ UNCHANGED <<progress_state, semaphores>>
    /\ UNCHANGED <<file_ids, pc, download_tasks, upload_tasks, refunds, limits>>
    /\ Quiet

\* A failure that ends every conversion worker of the task with it.
ConvertFailsCancellingSiblings(t, i, rec) ==
    /\ Fault
    /\ SetRec(t, Failed(rec, "Conversion error", ConvertName(t, i)))
    /\ conversion_tasks' = [conversion_tasks EXCEPT ![t] =
          [j \in DOMAIN conversion_tasks[t] |->
             IF j = i \/ conversion_tasks[t][j].pc = "queued"
             THEN ConvertEnded(conversion_tasks[t][j], "none")
             ELSE conversion_tasks[t][j]]]
    /\ Release("conversion")

\* The handler of convert_vob_to_mp4: one "Conversion error" entry, and the
\* coroutine returns None.
ConvertFails(t, i, rec) ==
    /\ Fault
    /\ SetRec(t, Failed(rec, "Conversion error", ConvertName(t, i)))
    /\ SetConvert(t, i, ConvertEnded(conversion_tasks[t][i], "none"))
    /\ Release("conversion")

\* get_video_duration(file_path): probe is what ffprobe reported (a
\* duration of 0 or none at all, and an ffprobe that failed, are None),
\* fallback the duration found in the banner of the null-output run.  The
\* frame count is returned only together with a duration of ffprobe.
get_video_duration(probe, fallback) ==
    IF probe.duration # None THEN <<probe.duration, probe.frames>>
    ELSE IF fallback # None THEN <<fallback, None>>
    ELSE <<None, None>>

total_duration(w) == get_video_duration(w.probe, w.fallback)[1]

total_frames(w) == get_video_duration(w.probe, w.fallback)[2]

\* use_frames = total_duration is None or total_duration <= 0
use_frames(w) == total_duration(w) = None \/ total_duration(w) <= 0

\* The two probes and the start of the encoder.
convert_probe(t, i, probe, fallback, spawned) ==
    /\ ConvertAt(t, i, "probe")
    /\ probe.duration # None => fallback = None
    /\ IF spawned
       THEN /\ SetConvert(t, i, [conversion_tasks[t][i] EXCEPT
                  !.pc = "reading", !.probe = probe, !.fallback = fallback])
            /\ UNCHANGED <<progress_state, semaphores, faults>>
       ELSE ConvertFails(t, i, Rec(t))
    /\ UNCHANGED <<file_ids, pc, download_tasks, upload_tasks, refunds, limits>>
    /\ Quiet

\* One diagnostic line carrying frame=n and time=n.  On the frame basis it
\* is reported when a frame count is known, on the time basis always; the
\* percentage is reported as computed, with no cap.  Counters of the
\* encoder only grow.
convert_line(t, i, n) ==
    /\ ConvertAt(t, i, "reading")
    /\ LET w       == conversion_tasks[t][i]
           total   == IF use_frames(w) THEN total_frames(w) ELSE total_duration(w)
           percent == PercentOf(n, total)
       IN  /\ use_frames(w) => total_frames(w) # None
           /\ percent > w.percent
           /\ SetRec(t, update_file_progress(Rec(t), ConvertName(t, i), "convert",
                                             percent, FALSE))
           /\ SetConvert(t, i, [w EXCEPT !.percent = percent, !.timeouts = 0])
    /\ UNCHANGED <<file_ids, pc, download_tasks, upload_tasks,
                   semaphores, refunds, faults, limits>>
    /\ Quiet

\* A read timeout that is handled like any other error of the worker.
ConvertTimeoutAborts(t, i) ==
    /\ ConvertAt(t, i, "reading")
    /\ conversion_tasks[t][i].timeouts < limits.timeouts
    /\ ConvertFails(t, i, Rec(t))
    /\ UNCHANGED <<file_ids, pc, download_tasks, upload_tasks, refunds, limits>>
    /\ Quiet

\* asyncio.wait_for(process.stderr.readline(), timeout=5.0) raises
\* TimeoutError: a warning is logged and the loop reads again.  timeouts
\* counts the timeouts since the line reported last.
convert_timeout(t, i) ==
    /\ ConvertAt(t, i, "reading")
    /\ conversion_tasks[t][i].timeouts < limits.timeouts
    /\ SetConvert(t, i, [conversion_tasks[t][i] EXCEPT !.timeouts = @ + 1])
    /\ UNCHANGED <<progress_state, file_ids, pc, download_tasks, upload_tasks,
                   semaphores, refunds, faults, limits>>
    /\ Quiet

\* An exit that takes a conversion without a progress basis for a failure.
ConvertExitNeedsBasis(t, i, returncode) ==
    /\ ConvertAt(t, i, "reading")
    /\ LET w == conversion_tasks[t][i]
       IN  IF returncode = 0 /\ (~use_frames(w) \/ total_frames(w) # None)
           THEN /\ SetRec(t, update_file_progress(Rec(t), ConvertName(t, i), "convert", 100, TRUE))
                /\ SetConvert(t, i, ConvertEnded(w, "returned"))
                /\ Release("conversion")
                /\ UNCHANGED faults
           ELSE ConvertFails(t, i, Failed(Rec(t), "Conversion failed", ConvertName(t, i)))
    /\ UNCHANGED <<file_ids, pc, download_tasks, upload_tasks, refunds, limits>>
    /\ Quiet

\* The read loop is left - at the end of the diagnostic stream, or by a read
\* error other than a timeout - and the encoder's exit code is awaited.  A
\* non-zero code appends "Conversion failed" and raises inside the try
\* block, so the handler appends "Conversion error" as well.
convert_exit(t, i, returncode) ==
    /\ ConvertAt(t, i, "reading")
    /\ IF returncode = 0
       THEN /\ SetRec(t, update_file_progress(Rec(t), ConvertName(t, i), "convert", 100, TRUE))
            /\ SetConvert(t, i, ConvertEnded(conversion_tasks[t][i], "returned"))
            /\ Release("conversion")
            /\ UNCHANGED faults
       ELSE ConvertFails(t, i, Failed(Rec(t), "Conversion failed", ConvertName(t, i)))
    /\ UNCHANGED <<file_ids, pc, download_tasks, upload_tasks, refunds, limits>>
    /\ Quiet

\* ------------------------------------------ process_selected_files, uploads
\* for file, result in zip(valid_downloads, results): an exception result
\* appends "Conversion failed".
RECURSIVE RecordRaised(_, _, _)
RecordRaised(rec, raised, t) ==
    IF raised = {} THEN rec
    ELSE LET i == CHOOSE j \in raised : \A k \in raised : j <= k
         IN  RecordRaised(Failed(rec, "Conversion failed", ConvertName(t, i)),
                          raised \ {i}, t)

upload_stage(t) ==
    /\ pc[t] = "conversions"
    /\ Finished(conversion_tasks[t])
    /\ LET raised == {i \in DOMAIN conversion_tasks[t] :
                        conversion_tasks[t][i].pc = "raised"}
       IN  SetRec(t, update_progress(RecordRaised(Rec(t), raised, t),
                 [overall_progress |-> 70, current_phase |-> "uploading",
                  files_completed |-> 0]))
    /\ upload_tasks' = [upload_tasks EXCEPT ![t] =
          [i \in Returned(conversion_tasks[t]) |->
             [pc |-> "queued", total_size |-> 0, uploaded_chunks |-> 0,
              attempt |-> 0, statuses |-> <<>>, range |-> <<>>, slept |-> 0,
              file_path |-> mp4_filename(conversion_tasks[t][i].vob_path),
              parent_id |-> <<>>, filename |-> <<>>]]]
    /\ pc' = [pc EXCEPT ![t] = "uploads"]
    /\ UNCHANGED <<file_ids, download_tasks, conversion_tasks, semaphores,
                   refunds, faults, limits>>
    /\ Quiet


\* ------------------------------------------------------------- upload_file
\* Sizes of a converted file: empty, whole chunks, and a last partial chunk.
Sizes(chunks) ==
    {0} \cup {k * CHUNK_SIZE : k \in 1..chunks}
        \cup {(k - 1) * CHUNK_SIZE + 1 : k \in 1..chunks}

\* chunk_number = (total_size + CHUNK_SIZE - 1) // CHUNK_SIZE
ChunkNumber(total_size) == (total_size + CHUNK_SIZE - 1) \div CHUNK_SIZE

\* A Content-Range whose start is computed from the length of the chunk read
\* instead of CHUNK_SIZE.
ChunkRangeFromLength(i, total_size) ==
    LET len == Min(CHUNK_SIZE, total_size - i * CHUNK_SIZE)
    IN  <<i * len, i * len + len - 1>>

\* The bytes of chunk i (from 0): start and end of its Content-Range.
ChunkRange(i, total_size) ==
    LET start == i * CHUNK_SIZE
        len   == Min(CHUNK_SIZE, total_size - start)
    IN  <<start, start + len - 1>>

\* asyncio.sleep(2 ** (attempt - 1))
Backoff(attempt) == 2 ^ (attempt - 1)

AcceptedOnly200(status) == status = 200

\* A test that takes every answer of the store for a success.
AcceptedWhatever(status) == status \in Responses

\* if response.status in (200, 201, 202)
Accepted(status) == status \in {200, 201, 202}

UploadAt(t, i, at) ==
    /\ pc[t] = "uploads"
    /\ i \in DOMAIN upload_tasks[t]
    /\ upload_tasks[t][i].pc = at

SetUpload(t, i, w) ==
    upload_tasks' = [upload_tasks EXCEPT ![t][i] = w]

\* async with semaphore_upload, the split of the base name and the first
\* report.  A base name with nothing before its first "-" raises ValueError
\* before anything is reported: the handler records the file and the permit
\* is given back in the same step.
upload_acquire(t, i) ==
    /\ UploadAt(t, i, "queued")
    /\ CanAcquire("upload")
    /\ LET w     == upload_tasks[t][i]
           split == SplitBaseName(w.file_path)
       IN  IF split[1] # <<>>
           THEN /\ Acquire("upload")
                /\ SetRec(t, update_file_progress(Rec(t), UploadName(t, i), "upload", 0, FALSE))
                /\ SetUpload(t, i, [w EXCEPT !.pc = "session",
                                             !.parent_id = split[1],
                                             !.filename = split[2]])
           ELSE /\ SetRec(t, Failed(Rec(t), "Upload failed", UploadName(t, i)))
                /\ SetUpload(t, i, [w EXCEPT !.pc = "raised"])
                /\ UNCHANGED semaphores
    /\ UNCHANGED <<file_ids, pc, download_tasks, conversion_tasks, refunds,
                   faults, limits>>
    /\ Quiet

\* A handler that ends the upload without recording it.
UploadFailsUnrecorded(t, i, w) ==
    /\ UNCHANGED progress_state
    /\ SetUpload(t, i, [w EXCEPT !.pc = "raised"])
    /\ Release("upload")

\* The handler of upload_file: one "Upload failed" entry, then HTTPException.
UploadFails(t, i, w) ==
    /\ SetRec(t, Failed(Rec(t), "Upload failed", UploadName(t, i)))
    /\ SetUpload(t, i, [w EXCEPT !.pc = "raised"])
    /\ Release("upload")

\* Token exchange, file size and createUploadSession.
upload_session(t, i, ok, total_size) ==
    /\ UploadAt(t, i, "session")
    /\ IF ok
       THEN /\ SetUpload(t, i, [upload_tasks[t][i] EXCEPT
                    !.pc = "sending", !.total_size = total_size, !.attempt = 1])
            /\ UNCHANGED <<progress_state, semaphores, faults>>
       ELSE /\ Fault
            /\ UploadFails(t, i, upload_tasks[t][i])
    /\ UNCHANGED <<file_ids, pc, download_tasks, conversion_tasks, refunds, limits>>
    /\ Quiet

\* One PUT of the current chunk and the handling of its answer.
upload_put(t, i, status) ==
    /\ UploadAt(t, i, "sending")
    /\ LET w    == upload_tasks[t][i]
           sent == [w EXCEPT
                      !.range = ChunkRange(w.uploaded_chunks, w.total_size),
                      !.statuses = Append(IF w.attempt = 1 THEN <<>> ELSE @, status)]
       IN  /\ w.uploaded_chunks < ChunkNumber(w.total_size)
           /\ IF Accepted(status)
              THEN \* break; uploaded_chunks += 1; report
                   /\ SetUpload(t, i, [sent EXCEPT !.uploaded_chunks = @ + 1,
                                                   !.attempt = 1, !.slept = 0])
                   /\ SetRec(t, update_file_progress(Rec(t), UploadName(t, i), "upload",
                          PercentOf(w.uploaded_chunks + 1, ChunkNumber(w.total_size)),
                          FALSE))
                   /\ UNCHANGED <<semaphores, faults>>
              ELSE /\ Fault
                   /\ IF w.attempt = RETRIES_PER_CHUNK
                      THEN UploadFails(t, i, sent)
                      ELSE /\ IF status = ClientError
                              THEN SetUpload(t, i, [sent EXCEPT !.pc = "backoff"])
                              ELSE SetUpload(t, i, [sent EXCEPT !.attempt = @ + 1,
                                                                !.slept = 0])
                           /\ UNCHANGED <<progress_state, semaphores>>
    /\ UNCHANGED <<file_ids, pc, download_tasks, conversion_tasks, refunds, limits>>
    /\ Quiet

\* The sleep after a ClientError is over: next attempt.
upload_backoff(t, i) ==
    /\ UploadAt(t, i, "backoff")
    /\ SetUpload(t, i, [upload_tasks[t][i] EXCEPT
            !.pc = "sending", !.slept = Backoff(upload_tasks[t][i].attempt),
            !.attempt = @ + 1])
    /\ UNCHANGED <<progress_state, file_ids, pc, download_tasks,
                   conversion_tasks, semaphores, refunds, faults, limits>>
    /\ Quiet

\* All ranges sent: the file is marked complete.
upload_finish(t, i) ==
    /\ UploadAt(t, i, "sending")
    /\ upload_tasks[t][i].uploaded_chunks = ChunkNumber(upload_tasks[t][i].total_size)
    /\ SetRec(t, update_file_progress(Rec(t), UploadName(t, i), "upload", 100, TRUE))
    /\ SetUpload(t, i, [upload_tasks[t][i] EXCEPT !.pc = "returned"])
    /\ Release("upload")
    /\ UNCHANGED <<file_ids, pc, download_tasks, conversion_tasks, refunds, faults, limits>>
    /\ Quiet

\* --------------------------------- process_selected_files, final summary
\* update_progress(task_id, current_phase="failed", overall_progress=0)
MarkFailed(rec) ==
    update_progress(rec, [current_phase |-> "failed", overall_progress |-> 0])

\* A final summary that is written without awaiting the upload gather.
final_summary_unawaited(t) ==
    /\ pc[t] = "uploads"
    /\ LET done == update_progress(Rec(t),
                     [overall_progress |-> 100, current_phase |-> "completed",
                      current_file |-> {}])
       IN  IF done.cost
           THEN /\ SetRec(t, done)
                /\ refunds' = [refunds EXCEPT ![t] = @ + 1]
                /\ pc' = [pc EXCEPT ![t] = "refund"]
           ELSE /\ SetRec(t, MarkFailed(done))
                /\ pc' = [pc EXCEPT ![t] = "done"]
                /\ UNCHANGED refunds
    /\ UNCHANGED <<file_ids, download_tasks, conversion_tasks, upload_tasks,
                   semaphores, faults, limits>>
    /\ Quiet

\* gather(upload...) returns: the task is marked completed and
\* handle_processing_failure is called.  With cost metadata the refund is
\* awaited; without it the function goes on at once.
final_summary(t) ==
    /\ pc[t] = "uploads"
    /\ Finished(upload_tasks[t])
    /\ LET done == update_progress(Rec(t),
                     [overall_progress |-> 100, current_phase |-> "completed",
                      current_file |-> {}])
       IN  IF done.cost
           THEN /\ SetRec(t, done)
                /\ refunds' = [refunds EXCEPT ![t] = @ + 1]
                /\ pc' = [pc EXCEPT ![t] = "refund"]
           ELSE /\ SetRec(t, MarkFailed(done))
                /\ pc' = [pc EXCEPT ![t] = "done"]
                /\ UNCHANGED refunds
    /\ UNCHANGED <<file_ids, download_tasks, conversion_tasks, upload_tasks,
                   semaphores, faults, limits>>
    /\ Quiet

\* handle_processing_failure after refund_credits_on_failure returned.
handle_processing_failure(t) ==
    /\ pc[t] = "refund"
    /\ SetRec(t, MarkFailed(Rec(t)))
    /\ pc' = [pc EXCEPT ![t] = "done"]
    /\ UNCHANGED <<file_ids, download_tasks, conversion_tasks, upload_tasks,
                   semaphores, refunds, faults, limits>>
    /\ Quiet

\* ------------------------------------------------------------ get_progress
\* progress_state[task_id].copy() without the two internal fields.
Snapshot(rec) ==
    [k \in DOMAIN rec \ {"start_time", "phase_start_time"} |-> rec[k]]

\* A poll that makes a default record for a handle it does not know.
get_progress_creating(t) ==
    /\ limits.polls
    /\ t \notin DOMAIN progress_state
    /\ response' = [task |-> t, status |-> 404,
                    content |-> [detail |-> "Task ID not found"]]
    /\ progress_state' =
          [u \in DOMAIN progress_state \cup {t} |->
             IF u = t THEN [current_phase |-> "initializing"]
             ELSE progress_state[u]]
    /\ UNCHANGED <<file_ids, pc, download_tasks, conversion_tasks,
                   upload_tasks, semaphores, refunds, faults, limits>>

\* GET /progress/{task_id}: the snapshot of a known task, 404 for any other
\* handle.  The handler has no suspension point and writes nothing.
get_progress(t) ==
    /\ limits.polls
    /\ response' =
          IF t \in DOMAIN progress_state
          THEN [task |-> t, status |-> 200, content |-> Snapshot(Rec(t))]
          ELSE [task |-> t, status |-> 404,
                content |-> [detail |-> "Task ID not found"]]
    /\ UNCHANGED <<progress_state, file_ids, pc, download_tasks,
                   conversion_tasks, upload_tasks, semaphores, refunds,
                   faults, limits>>

\* ------------------------------------------------------------------- Next
Positions == 1..limits.files

\* What the environment can offer in this run.  A content-length of 0 and a
\* missing one are the same to the worker, so only a body with chunks can
\* come with a length, and only in a file with content the probes find a
\* duration or a frame count.
Lengths(n) == IF n > 0 THEN BOOLEAN ELSE {FALSE}

\* The parent ids and display names the remote store answers with.  Where
\* the store can fail it can also answer with an empty parent id.
ParentIds ==
    (IF limits.names THEN Strings({"p", "-"}, MaxParentLen) ELSE {<<"p">>})
       \cup (IF limits.faults > 0 THEN {<<>>} ELSE {})

\* The display name of the file with a given id: no folder holds two files
\* of one name.
DisplayName(id) ==
    IF limits.stems THEN <<"n", ".", Digit(id)>> ELSE <<"n", Digit(id)>>

\* The display names the lookups of task t find for the positions in valid.
DisplayNames(t, valid) ==
    IF limits.names THEN [valid -> Strings({"n", "-", "."}, MaxNameLen)]
    ELSE {[i \in valid |-> DisplayName(file_ids[t][i])]}

Probes ==
    IF limits.chunks > 0
    THEN [duration : {None, ProbedTotal, -1}, frames : {None, ProbedTotal}]
    ELSE {NoProbe}

Fallbacks == IF limits.chunks > 0 THEN {None, ProbedTotal} ELSE {None}

\* Whether a request carries user_id and estimated_cost.  The runs with
\* several tasks submit requests without them.
Costs == IF limits.tasks > 1 THEN {FALSE} ELSE BOOLEAN

\* The lists of n file ids a client submits: n different files, or, where
\* the run allows it, a list whose last id is the first one again.
FileIds(n) ==
    {[i \in 1..n |-> i]}
       \cup (IF limits.repeats /\ n >= 2
             THEN {[i \in 1..n |-> IF i = n THEN 1 ELSE i]} ELSE {})

Stages == {"download", "conversion", "upload"}

\* The workers of task t in a stage.
StageWorkers(stage, t) ==
    CASE stage = "download"   -> download_tasks[t]
      [] stage = "conversion" -> conversion_tasks[t]
      [] stage = "upload"     -> upload_tasks[t]

\* Some step of the worker at position i of task t.
WorkerStep(stage, t, i) ==
    CASE stage = "download" ->
           \/ download_acquire(t, i)
           \/ \E ok \in BOOLEAN, parent_id \in ParentIds :
                 download_metadata(t, i, ok, parent_id)
           \/ \E ok \in BOOLEAN, n \in 0..limits.chunks :
                 \E length \in Lengths(n) : download_content(t, i, ok, n, length)
           \/ \E ok \in BOOLEAN : download_chunk(t, i, ok)
           \/ download_finish(t, i)
      [] stage = "conversion" ->
           \/ \E ok \in BOOLEAN : convert_acquire(t, i, ok)
           \/ \E probe \in Probes, fallback \in Fallbacks, spawned \in BOOLEAN :
                 convert_probe(t, i, probe, fallback, spawned)
           \/ \E n \in Counters : convert_line(t, i, n)
           \/ convert_timeout(t, i)
           \/ \E returncode \in {0, 1} : convert_exit(t, i, returncode)
      [] stage = "upload" ->
           \/ upload_acquire(t, i)
           \/ \E ok \in BOOLEAN, total_size \in Sizes(limits.chunks) :
                 upload_session(t, i, ok, total_size)
           \/ \E status \in Responses : upload_put(t, i, status)
           \/ upload_backoff(t, i)
           \/ upload_finish(t, i)

Next ==
    \/ \E t \in Tasks, n \in 0..limits.files, cost \in Costs :
          \E ids \in FileIds(n) : convert_files(t, ids, cost)
    \/ \E t \in Tasks : process_start(t)
    \/ \E t \in Tasks, valid \in SUBSET Positions :
          \E names \in DisplayNames(t, valid \cap DOMAIN file_ids[t]) :
             gather_file_infos(t, valid, names)
    \/ \E t \in Tasks, i \in Positions : download_acquire(t, i)
    \/ \E t \in Tasks, i \in Positions, ok \in BOOLEAN, parent_id \in ParentIds :
          download_metadata(t, i, ok, parent_id)
    \/ \E t \in Tasks, i \in Positions, ok \in BOOLEAN, n \in 0..limits.chunks :
          \E length \in Lengths(n) : download_content(t, i, ok, n, length)
    \/ \E t \in Tasks, i \in Positions, ok \in BOOLEAN : download_chunk(t, i, ok)
    \/ \E t \in Tasks, i \in Positions : download_finish(t, i)
    \/ \E t \in Tasks : convert_stage(t)
    \/ \E t \in Tasks, i \in Positions, ok \in BOOLEAN : convert_acquire(t, i, ok)
    \/ \E t \in Tasks, i \in Positions, probe \in Probes,
          fallback \in Fallbacks, spawned \in BOOLEAN :
             convert_probe(t, i, probe, fallback, spawned)
    \/ \E t \in Tasks, i \in Positions, n \in Counters : convert_line(t, i, n)
    \/ \E t \in Tasks, i \in Positions : convert_timeout(t, i)
    \/ \E t \in Tasks, i \in Positions, returncode \in {0, 1} :
          convert_exit(t, i, returncode)
    \/ \E t \in Tasks : upload_stage(t)
    \/ \E t \in Tasks, i \in Positions : upload_acquire(t, i)
    \/ \E t \in Tasks, i \in Positions, ok \in BOOLEAN, total_size \in Sizes(limits.chunks) :
          upload_session(t, i, ok, total_size)
    \/ \E t \in Tasks, i \in Positions, status \in Responses : upload_put(t, i, status)
    \/ \E t \in Tasks, i \in Positions : upload_backoff(t, i)
    \/ \E t \in Tasks, i \in Positions : upload_finish(t, i)
    \/ \E t \in Tasks : final_summary(t)
    \/ \E t \in Tasks : handle_processing_failure(t)
    \/ \E t \in Tasks : get_progress(t)

Spec == Init /\ [][Next]_vars

\* The steps of the pipeline: everything but the requests of the clients.
\* The event loop runs every coroutine that is ready, and every remote call
\* and every encoder run returns: while a step of the pipeline is possible,
\* one is taken.
Pipeline ==
    \/ \E t \in Tasks : process_start(t)
    \/ \E t \in Tasks, valid \in SUBSET Positions :
          \E names \in DisplayNames(t, valid \cap DOMAIN file_ids[t]) :
             gather_file_infos(t, valid, names)
    \/ \E t \in Tasks, stage \in Classes, i \in Positions : WorkerStep(stage, t, i)
    \/ \E t \in Tasks : convert_stage(t)
    \/ \E t \in Tasks : upload_stage(t)
    \/ \E t \in Tasks : final_summary(t)
    \/ \E t \in Tasks : handle_processing_failure(t)

FairSpec == Spec /\ WF_vars(Pipeline)


\* ==================================================================== claims
Created == DOMAIN progress_state

Phase(t) == progress_state[t].current_phase

\* Positions of task t's batch whose file went through all three stages.
Uploaded(t) == Returned(upload_tasks[t])

\* All three gathers of task t have returned.
StagesOver(t) == pc[t] \in {"refund", "done"}

\* C1: for a batch in which at least one file fails and the others succeed,
\* once the three stages are over the task's snapshot - the final one and
\* every later one - has current_phase "completed" and overall_progress 100.
C1_PartialFailureEndsCompleted ==
    \A t \in Created :
        (StagesOver(t) /\ Uploaded(t) # {} /\ Uploaded(t) # DOMAIN file_ids[t])
            => /\ Phase(t) = "completed"
               /\ progress_state[t].overall_progress = 100

\* No lookup and no worker of task t has failed so far.
NoFailure(t) ==
    /\ pc[t] \notin {"start", "file_infos"}
          => DOMAIN download_tasks[t] = DOMAIN file_ids[t]
    /\ \A i \in DOMAIN download_tasks[t] : download_tasks[t][i].pc # "raised"
    /\ \A i \in DOMAIN conversion_tasks[t] :
          conversion_tasks[t][i].pc \notin {"raised", "none"}
    /\ \A i \in DOMAIN upload_tasks[t] : upload_tasks[t][i].pc # "raised"

\* C2: in a run in which every file succeeds in download, conversion and
\* upload, current_phase is never "failed" and the run ends in "completed".
C2_SuccessNeverFailed ==
    \A t \in Created :
        (file_ids[t] # <<>> /\ NoFailure(t))
            => /\ Phase(t) # "failed"
               /\ pc[t] = "done" => Phase(t) = "completed"

PhaseOrder ==
    <<"initializing", "downloading", "converting", "uploading", "completed">>

Successor(phase) ==
    {PhaseOrder[k + 1] : k \in {j \in 1..4 : PhaseOrder[j] = phase}}

\* C3: current_phase changes only one step forward in the order
\* initializing, downloading, converting, uploading, completed, or to
\* failed; nothing leaves completed or failed.
C3_PhaseOnlyForward ==
    [][\A t \in Created :
          Phase(t)' # Phase(t)
             => /\ Phase(t) \notin {"completed", "failed"}
                /\ Phase(t)' \in Successor(Phase(t)) \cup {"failed"}]_vars

\* C4: while converting overall_progress >= 35, while uploading
\* overall_progress >= 75, for every batch size (the empty batch included).
C4_PhaseFloor ==
    \A t \in Created :
        /\ Phase(t) = "converting" => progress_state[t].overall_progress >= 35
        /\ Phase(t) = "uploading" => progress_state[t].overall_progress >= 75

\* C5: phase_progress and overall_progress always lie in [0,100], whatever
\* percentage a worker reports (a conversion percentage above 100 included).
C5_ProgressInRange ==
    \A t \in Created :
        /\ progress_state[t].phase_progress \in 0..100
        /\ progress_state[t].overall_progress \in 0..100

UploadWorkers == {<<t, i>> \in Tasks \X (Positions) : i \in DOMAIN upload_tasks[t]}

Worker(ti) == upload_tasks[ti[1]][ti[2]]

UploadFailures(ti) ==
    CopiesIn(<<"Upload failed", UploadName(ti[1], ti[2])>>,
             progress_state[ti[1]].failed_files)

InCompletedUploads(ti) ==
    BagIn(UploadName(ti[1], ti[2]), progress_state[ti[1]].completed_uploads)

\* The answers to the attempts of the range sent last: three non-success
\* statuses, then 200, 201 or 202.
FourthAttemptAccepted(w) ==
    /\ Len(w.statuses) = 4
    /\ \A k \in 1..3 : w.statuses[k] \notin {200, 201, 202, ClientError}
    /\ w.statuses[4] \in {200, 201, 202}

\* C6: a byte range whose first three attempts are answered with a
\* non-success status and whose fourth attempt is answered 200, 201 or 202
\* is accepted: it counts as sent, the worker goes on (to the next range or
\* to completion) and records no failure; when the worker returns the file
\* is in completed_uploads.
C6_FourthAttemptAccepted ==
    \A ti \in UploadWorkers :
        LET w == Worker(ti) IN
        FourthAttemptAccepted(w)
            => /\ w.pc \in {"sending", "returned"}
               /\ w.attempt = 1
               /\ w.range[1] = (w.uploaded_chunks - 1) * CHUNK_SIZE
               /\ UploadFailures(ti) = 0
               /\ w.pc = "returned" => InCompletedUploads(ti)

C6_Witness ==
    \E ti \in UploadWorkers :
        /\ FourthAttemptAccepted(Worker(ti))
        /\ Worker(ti).pc = "returned"
        /\ Worker(ti).uploaded_chunks = 2
        /\ InCompletedUploads(ti)

\* The answers to the attempts of the range sent last: five failures.
AllAttemptsFailed(w) ==
    /\ Len(w.statuses) = 5
    /\ \A k \in 1..5 : w.statuses[k] \notin {200, 201, 202}

\* C7: when all 5 attempts of one byte range fail the upload of that file
\* stops: the worker has ended with an error, the range sent last is the
\* failed one, the file is not in completed_uploads, failed_files holds
\* exactly one entry for it, and the ended worker never runs again.
C7_ExhaustedRangeAborts ==
    /\ [](\A ti \in UploadWorkers :
            LET w == Worker(ti) IN
            AllAttemptsFailed(w)
               => /\ w.pc = "raised"
                  /\ w.range[1] = w.uploaded_chunks * CHUNK_SIZE
                  /\ ~InCompletedUploads(ti)
                  /\ UploadFailures(ti) = 1)
    /\ [][\A ti \in UploadWorkers :
            Worker(ti).pc = "raised"
               => /\ Worker(ti)' = Worker(ti)
                  /\ UploadFailures(ti)' = UploadFailures(ti)]_vars

C7_Witness ==
    \E ti \in UploadWorkers :
        /\ AllAttemptsFailed(Worker(ti))
        /\ Worker(ti).uploaded_chunks = 1
        /\ pc[ti[1]] = "done"

\* The step of worker w to w2 is a PUT of a byte range.
IsPut(w, w2) == w.pc = "sending" /\ w2 # w /\ w2.pc # "returned"

Last(s) == s[Len(s)]

\* C8: the ranges of one upload are sent one after the other in increasing
\* offset order: every PUT carries the first range not acknowledged yet, a
\* first attempt follows an accepted attempt of the range just before it,
\* and a retry carries the same range as the failed attempt.
C8_RangesInOrder ==
    [][\A ti \in UploadWorkers :
          LET w  == Worker(ti)
              w2 == Worker(ti)'
          IN  IsPut(w, w2)
                 => /\ w2.range[1] = w.uploaded_chunks * CHUNK_SIZE
                    /\ w2.range[2] = Min(w2.range[1] + CHUNK_SIZE, w.total_size) - 1
                    /\ w.attempt > 1 => w2.range = w.range
                    /\ (w.attempt = 1 /\ w.range # <<>>)
                          => /\ Last(w.statuses) \in {200, 201, 202}
                             /\ w2.range[1] = w.range[2] + 1
                    /\ w2.uploaded_chunks # w.uploaded_chunks
                          => /\ w2.uploaded_chunks = w.uploaded_chunks + 1
                             /\ Last(w2.statuses) \in {200, 201, 202}]_vars

C8_Witness ==
    \E ti \in UploadWorkers :
        LET w == Worker(ti) IN
        /\ w.pc = "sending"
        /\ w.uploaded_chunks = 1
        /\ w.attempt = 3
        /\ w.range = <<CHUNK_SIZE, 2 * CHUNK_SIZE - 1>>

\* C9: after every failed attempt k < 5 of a range - non-success status or
\* client error alike - the worker has waited 2^(k-1) seconds before it
\* makes attempt k+1.
C9_BackoffBeforeEveryRetry ==
    \A ti \in UploadWorkers :
        LET w == Worker(ti) IN
        (w.pc = "sending" /\ w.attempt > 1) => w.slept = 2 ^ (w.attempt - 2)

\* Workers of all tasks that are inside the gated section of a class.
Inside(class) ==
    LET gated == CASE class = "download" ->
                        {ti \in Tasks \X (Positions) :
                            /\ ti[2] \in DOMAIN download_tasks[ti[1]]
                            /\ download_tasks[ti[1]][ti[2]].pc
                                 \in {"metadata", "content", "streaming"}}
                   [] class = "conversion" ->
                        {ti \in Tasks \X (Positions) :
                            /\ ti[2] \in DOMAIN conversion_tasks[ti[1]]
                            /\ conversion_tasks[ti[1]][ti[2]].pc
                                 \in {"probe", "reading"}}
                   [] class = "upload" ->
                        {ti \in UploadWorkers :
                            Worker(ti).pc \in {"session", "sending", "backoff"}}
    IN  Cardinality(gated)

\* C10: for each class separately, at most CONCURRENT (3) workers are
\* inside the class's gated section at any instant.
C10_AtMostPermitCount ==
    \A class \in Classes : Inside(class) <= 3

C10_Witness ==
    \E t \in Tasks, i \in Positions :
        /\ i \in DOMAIN upload_tasks[t]
        /\ upload_tasks[t][i].pc = "queued"
        /\ Inside("upload") = 3
        /\ semaphores["upload"] = 0

\* C11: every worker gives its permit back on every exit path: for each
\* class the free permits and the workers inside the gated section add up to
\* the configured count, so whenever no worker of a class is running all
\* CONCURRENT permits of that class are free.
C11_PermitsReturned ==
    \A class \in Classes :
        /\ semaphores[class] + Inside(class) = CONCURRENT
        /\ Inside(class) = 0 => semaphores[class] = CONCURRENT

\* A finished batch with one returned and one raised worker in a class.
C11_Witness ==
    \E t \in Tasks :
        /\ pc[t] = "done"
        /\ \/ \E i, j \in DOMAIN upload_tasks[t] :
                /\ upload_tasks[t][i].pc = "raised"
                /\ upload_tasks[t][j].pc = "returned"
           \/ \E i, j \in DOMAIN download_tasks[t] :
                /\ download_tasks[t][i].pc = "raised"
                /\ download_tasks[t][j].pc = "returned"
        /\ \A class \in Classes : semaphores[class] = CONCURRENT

\* Worker w has ended: it returned a path, returned None or raised.
Ended(w) == w.pc \in {"returned", "none", "raised"}

\* C12: the stages of one task are barriers: while a conversion worker of
\* the task exists every download worker of the task has ended, and while
\* an upload worker of the task exists every conversion worker has ended.
C12_StagesAreBarriers ==
    \A t \in Tasks :
        /\ DOMAIN conversion_tasks[t] # {}
              => \A i \in DOMAIN download_tasks[t] : Ended(download_tasks[t][i])
        /\ DOMAIN upload_tasks[t] # {}
              => /\ \A i \in DOMAIN download_tasks[t] : Ended(download_tasks[t][i])
                 /\ \A i \in DOMAIN conversion_tasks[t] :
                       Ended(conversion_tasks[t][i])

\* Two files of one task behind both barriers, one upload under way.
C12_Witness ==
    \E t \in Tasks :
        /\ Cardinality(DOMAIN conversion_tasks[t]) >= 2
        /\ \E i \in DOMAIN upload_tasks[t] : upload_tasks[t][i].pc = "session"
        /\ \E i \in DOMAIN upload_tasks[t] : upload_tasks[t][i].pc = "queued"

\* The stage of task t whose workers are running.
Running(stage, t) ==
    \/ stage = "download" /\ pc[t] = "downloads"
    \/ stage = "conversion" /\ pc[t] = "conversions"
    \/ stage = "upload" /\ pc[t] = "uploads"

\* C13: a failure of one file's worker leaves its siblings and the batch
\* alone.  (1) While a sibling of a failed worker has not ended it can take
\* its next step, or it waits for a permit that CONCURRENT running workers
\* hold.  (2) Every file that came out of a stage is given to the next one.
\* (3) The step in which a worker fails changes no other worker of the task
\* and not the orchestrator's position.
C13_FailureLeavesSiblingsAlone ==
    /\ [](\A t \in Tasks, stage \in Stages :
            \A i, j \in DOMAIN StageWorkers(stage, t) :
               ( /\ Running(stage, t)
                 /\ StageWorkers(stage, t)[i].pc \in {"raised", "none"}
                 /\ ~Ended(StageWorkers(stage, t)[j]) )
                  => \/ ENABLED WorkerStep(stage, t, j)
                     \/ /\ StageWorkers(stage, t)[j].pc = "queued"
                        /\ Inside(stage) = CONCURRENT)
    /\ [](\A t \in Tasks :
            /\ pc[t] \in {"conversions", "uploads", "refund", "done"}
                  => Returned(download_tasks[t]) \subseteq DOMAIN conversion_tasks[t]
            /\ pc[t] \in {"uploads", "refund", "done"}
                  => Returned(conversion_tasks[t]) \subseteq DOMAIN upload_tasks[t])
    /\ [][\A t \in Tasks, stage \in Stages :
            \A i \in DOMAIN StageWorkers(stage, t) :
               ( /\ ~Ended(StageWorkers(stage, t)[i])
                 /\ StageWorkers(stage, t)'[i].pc \in {"raised", "none"} )
                  => /\ pc'[t] = pc[t]
                     /\ \A other \in Stages :
                           \A j \in DOMAIN StageWorkers(other, t) :
                              (other # stage \/ j # i)
                                 => StageWorkers(other, t)'[j]
                                       = StageWorkers(other, t)[j]]_vars

\* One file's download has failed and its sibling, given to the later
\* stages, is being uploaded.
C13_Witness ==
    \E t \in Tasks :
        \E i, j \in DOMAIN download_tasks[t] :
            /\ download_tasks[t][i].pc = "raised"
            /\ pc[t] = "uploads"
            /\ j \in DOMAIN upload_tasks[t]
            /\ upload_tasks[t][j].pc = "sending"

\* C14: a file whose download failed (a lookup, the worker's metadata call,
\* the content request or a write) has no conversion and no upload worker,
\* and a file whose conversion failed (exit code not 0, or any error in the
\* worker) has no upload worker: every conversion worker belongs to a file
\* whose download returned a path, every upload worker to a file whose
\* conversion returned a path.
C14_FailedFilesExcluded ==
    \A t \in Tasks :
        /\ \A i \in DOMAIN conversion_tasks[t] :
              /\ i \in DOMAIN download_tasks[t]
              /\ download_tasks[t][i].pc = "returned"
        /\ \A i \in DOMAIN upload_tasks[t] :
              /\ i \in DOMAIN conversion_tasks[t]
              /\ conversion_tasks[t][i].pc = "returned"
              /\ download_tasks[t][i].pc = "returned"

\* A batch in which one file's conversion failed and the other file is
\* uploaded.
C14_Witness ==
    \E t \in Tasks :
        \E i, j \in DOMAIN conversion_tasks[t] :
            /\ conversion_tasks[t][i].pc \in {"none", "raised"}
            /\ j \in DOMAIN upload_tasks[t]
            /\ upload_tasks[t][j].pc = "returned"

\* Number of entries of one kind in a record's failed_files.
RECURSIVE CountKind(_, _, _)
CountKind(failed, kind, entries) ==
    IF entries = {} THEN 0
    ELSE LET e == CHOOSE x \in entries : TRUE
         IN  (IF e[1] = kind THEN CopiesIn(e, failed) ELSE 0)
                + CountKind(failed, kind, entries \ {e})

Failures(t, kind) ==
    CountKind(progress_state[t].failed_files, kind,
              BagToSet(progress_state[t].failed_files))

\* C15: at pipeline end the entries of completed_downloads and the download
\* failure entries of failed_files add up to the number of submitted file
\* identifiers, whichever lookups, metadata calls, content requests and
\* writes failed.
C15_DownloadsAccounted ==
    \A t \in Created :
        StagesOver(t)
            => Len_(progress_state[t].completed_downloads)
                  + Failures(t, "Download failed") = Len(file_ids[t])

\* C16: at pipeline end the entries of completed_conversions and the
\* conversion failure entries of failed_files add up to the number of
\* downloaded files: a file whose conversion fails has exactly one entry.
C16_ConversionsAccounted ==
    \A t \in Created :
        StagesOver(t)
            => Len_(progress_state[t].completed_conversions)
                  + Failures(t, "Conversion failed")
                  + Failures(t, "Conversion error")
               = Cardinality(Returned(download_tasks[t]))

\* C17: at pipeline end the entries of completed_uploads and the upload
\* failure entries of failed_files add up to the number of converted files
\* (the files given to the upload stage), whichever step of an upload worker
\* failed (the split of the name, the token exchange, the upload session, a
\* byte range).
C17_UploadsAccounted ==
    \A t \in Created :
        StagesOver(t)
            => Len_(progress_state[t].completed_uploads)
                  + Failures(t, "Upload failed")
               = Cardinality(Returned(conversion_tasks[t]))

ActiveMaps == {"active_downloads", "active_conversions", "active_uploads"}

CompletedLists ==
    {"completed_downloads", "completed_conversions", "completed_uploads"}

\* The record holds the progress values its own maps and lists give.
Consistent(rec) ==
    rec.current_phase \in {"downloading", "converting", "uploading"}
        => /\ rec.phase_progress = update_progress(rec, <<>>).phase_progress
           /\ rec.overall_progress = update_progress(rec, <<>>).overall_progress

\* The name under which the stage's worker at position i reports its file.
FileName(stage, t, i) ==
    CASE stage = "download"   -> DownloadName(t, i)
      [] stage = "conversion" -> ConvertName(t, i)
      [] stage = "upload"     -> UploadName(t, i)

\* Names of the files of task t whose worker takes this step.
Movers(t) ==
    UNION {{FileName(stage, t, j)' : j \in {k \in DOMAIN StageWorkers(stage, t) :
                StageWorkers(stage, t)'[k] # StageWorkers(stage, t)[k]}} :
           stage \in Stages}

\* What the worker at position i of a stage has written once its step is
\* over: 0 when it registered, the percentage of its chunks, and its move
\* from the active map to the completed list when it returned.
Written(name, w, w2, active, completed, registered) ==
    /\ (w.pc # registered /\ w2.pc = registered) => active[name] = 0
    /\ (w.pc # "returned" /\ w2.pc = "returned")
          => /\ name \notin DOMAIN active
             /\ BagIn(name, completed)

\* C18: updates of concurrent workers and polls are atomic to each other.
\* (1) In every state, and so in every polled snapshot, the phase_progress
\* and overall_progress of a task in a working phase are the values its own
\* active map, completed list and total_files give.  (2) A worker's step
\* leaves every entry of the active maps that belongs to another file as it
\* was, a completed list never loses an entry, the record of a task none of
\* whose coroutines moved is unchanged, and the value the worker wrote is in
\* the record when its step is over.
C18_UpdatesAtomic ==
    /\ [](/\ \A t \in Created : Consistent(progress_state[t])
          /\ response.status = 200 => Consistent(response.content))
    /\ [][\A t \in Created :
            /\ \A m \in ActiveMaps :
                  \A k \in DOMAIN progress_state[t][m] \ Movers(t) :
                     /\ k \in DOMAIN progress_state'[t][m]
                     /\ progress_state'[t][m][k] = progress_state[t][m][k]
            /\ \A l \in CompletedLists :
                  progress_state[t][l] \sqsubseteq progress_state'[t][l]
            /\ (Movers(t) = {} /\ pc'[t] = pc[t])
                  => progress_state'[t] = progress_state[t]
            /\ \A i \in DOMAIN download_tasks[t] :
                  LET w == download_tasks[t][i]  w2 == download_tasks'[t][i]
                  IN  /\ Written(w2.file_path, w, w2, progress_state'[t].active_downloads,
                                 progress_state'[t].completed_downloads, "content")
                      /\ (w2.downloaded > w.downloaded /\ w2.length)
                            => progress_state'[t].active_downloads[w2.file_path]
                                  = PercentOf(w2.downloaded, w2.chunks)
            /\ \A i \in DOMAIN conversion_tasks[t] :
                  LET w == conversion_tasks[t][i]  w2 == conversion_tasks'[t][i]
                  IN  /\ Written(w2.vob_path, w, w2, progress_state'[t].active_conversions,
                                 progress_state'[t].completed_conversions, "probe")
                      /\ w2.percent > w.percent
                            => progress_state'[t].active_conversions[w2.vob_path]
                                  = w2.percent
            /\ \A i \in DOMAIN upload_tasks[t] :
                  LET w == upload_tasks[t][i]  w2 == upload_tasks'[t][i]
                  IN  /\ Written(w2.file_path, w, w2, progress_state'[t].active_uploads,
                                 progress_state'[t].completed_uploads, "session")
                      /\ w2.uploaded_chunks > w.uploaded_chunks
                            => progress_state'[t].active_uploads[w2.file_path]
                                  = PercentOf(w2.uploaded_chunks,
                                              ChunkNumber(w2.total_size))]_vars

\* A poll answered while one of a task's two files is converted and the
\* other is still being converted.
C18_Witness ==
    /\ response.status = 200
    /\ response.content.current_phase = "converting"
    /\ response.content.total_files = 2
    /\ Cardinality(DOMAIN response.content.active_conversions) = 1
    /\ Len_(response.content.completed_conversions) = 1
    /\ response.content.phase_progress = 50
    /\ response.content.overall_progress = 55

\* C19: once the current_phase of a task (here: one with an uploaded file)
\* is "completed" no step - of a worker, of the orchestrator or of a poll -
\* changes the task's record, and a poll that follows a poll of the
\* completed task is answered with the identical snapshot.
C19_CompletedIsFinal ==
    [][/\ \A t \in Created :
             (Phase(t) = "completed" /\ Uploaded(t) # {})
                => progress_state'[t] = progress_state[t]
       /\ ( /\ response.status = 200
            /\ response.content.current_phase = "completed"
            /\ response'.status = 200
            /\ response'.task = response.task )
             => response'.content = response.content]_vars

\* C20: a poll of a known handle is answered 200 with the task's record as
\* it is at that instant, in every phase and whatever failed_files holds; a
\* poll of an unknown handle is answered 404; no poll changes the task
\* table.  Where a client polls, a poll of any handle can be answered in
\* every state.
C20_PollAnswers ==
    /\ [](limits.polls => \A t \in Tasks : ENABLED get_progress(t))
    /\ [][response' # NoResponse
            => /\ progress_state' = progress_state
               /\ IF response'.task \in Created
                  THEN /\ response'.status = 200
                       /\ response'.content = progress_state[response'.task]
                  ELSE /\ response'.status = 404
                       /\ response'.task \notin DOMAIN progress_state']_vars

\* A poll answered with the snapshot of a running task that has a failure
\* on record.
C20_Witness ==
    /\ response.status = 200
    /\ response.content.failed_files # EmptyBag
    /\ response.content.current_phase = "uploading"
    /\ response.content = progress_state[response.task]

\* C21: at the end of a task (here: one with an uploaded file) the refund
\* collaborator has been invoked if and only if failed_files holds at least
\* one entry and the task carries cost metadata; a task that ends with no
\* failed file has triggered no refund.
C21_RefundOnlyOnFailure ==
    \A t \in Created :
        (StagesOver(t) /\ Uploaded(t) # {})
            => ( refunds[t] > 0
                   <=> ( /\ progress_state[t].failed_files # EmptyBag
                         /\ progress_state[t].cost ) )

\* ffprobe found a frame count and no duration, and the null-output run found
\* no duration either.
FramesOnly(w) ==
    /\ w.pc = "reading"
    /\ w.probe.duration = None
    /\ w.probe.frames # None
    /\ w.fallback = None

\* C22: when the metadata probe yields a frame count and no duration, and
\* the fallback yields no duration either, the conversion worker is on the
\* frame basis with the probed frame count as its total: every diagnostic
\* line with a higher frame=n can be reported, and what a line reports is
\* int(n / total_frames * 100), written to the file's entry of
\* active_conversions.
C22_FrameBasisWithProbedCount ==
    /\ [](\A t \in Tasks : \A i \in DOMAIN conversion_tasks[t] :
            LET w == conversion_tasks[t][i] IN
            FramesOnly(w)
               => /\ use_frames(w)
                  /\ total_frames(w) = w.probe.frames
                  /\ \A n \in Counters :
                        PercentOf(n, w.probe.frames) > w.percent
                           => ENABLED convert_line(t, i, n))
    /\ [][\A t \in Tasks : \A i \in DOMAIN conversion_tasks[t] :
            LET w  == conversion_tasks[t][i]
                w2 == conversion_tasks'[t][i]
            IN  (FramesOnly(w) /\ w2.percent > w.percent)
                   => /\ \E n \in Counters :
                            w2.percent = PercentOf(n, w.probe.frames)
                      /\ progress_state'[t].active_conversions[ConvertName(t, i)]
                            = w2.percent]_vars

\* Workers of task t that are inside the gated section of a class.
InsideOf(class, t) ==
    LET w == StageWorkers(class, t)
        gated == CASE class = "download"   -> {"metadata", "content", "streaming"}
                   [] class = "conversion" -> {"probe", "reading"}
                   [] class = "upload"     -> {"session", "sending", "backoff"}
    IN  Cardinality({i \in DOMAIN w : w[i].pc \in gated})

\* C23: permit quotas are scoped per owning session.  Every task is
\* submitted by a session of its own; the permits of a class that are free
\* for a task's workers are CONCURRENT less the permits the task's own
\* workers hold - workers of another session take none of them - and a
\* queued worker whose own session holds fewer than CONCURRENT permits of
\* its class can start.
C23_QuotaPerSession ==
    [](\A t \in Tasks, class \in Classes :
          /\ (Running(class, t) /\ DOMAIN StageWorkers(class, t) # {})
                => semaphores[class] = CONCURRENT - InsideOf(class, t)
          /\ \A i \in DOMAIN StageWorkers(class, t) :
                ( /\ Running(class, t)
                  /\ StageWorkers(class, t)[i].pc = "queued"
                  /\ InsideOf(class, t) < CONCURRENT )
                   => ENABLED WorkerStep(class, t, i))

\* The record of task t is the one a submission of its batch creates.
JustSubmitted(t) ==
    /\ t \in DOMAIN progress_state
    /\ progress_state[t].current_phase = "initializing"
    /\ progress_state[t].overall_progress = 0
    /\ progress_state[t].total_files = Len(file_ids[t])
    /\ \A m \in ActiveMaps : DOMAIN progress_state[t][m] = {}
    /\ \A l \in CompletedLists : progress_state[t][l] = EmptyBag
    /\ progress_state[t].failed_files = EmptyBag

\* C24: submission returns the handle without waiting for a stage worker.
\* (1) The step that submits task t leaves the pipeline at its start, with
\* no worker made.  (2) While the pipeline has not run, the record exists
\* with current_phase "initializing", overall_progress 0, total_files = N and
\* empty active maps, completed lists and failed_files, and a poll of the
\* handle can be answered.  (3) A poll answered at that moment is a 200 with
\* that record.
C24_SubmissionReturnsAtOnce ==
    /\ [][\A t \in Tasks :
            (pc[t] = "unsubmitted" /\ pc'[t] # "unsubmitted")
               => /\ pc'[t] = "start"
                  /\ download_tasks'[t] = NoWorkers
                  /\ conversion_tasks'[t] = NoWorkers
                  /\ upload_tasks'[t] = NoWorkers]_vars
    /\ [](\A t \in Tasks :
            pc[t] = "start"
               => /\ JustSubmitted(t)
                  /\ limits.polls => ENABLED get_progress(t)
                  /\ response.task = t
                        => /\ response.status = 200
                           /\ response.content = Snapshot(progress_state[t]))

\* A batch of two files was submitted and the poll that follows at once is
\* answered with the initial record.
C24_Witness ==
    \E t \in Tasks :
        /\ pc[t] = "start"
        /\ Len(file_ids[t]) = 2
        /\ response.task = t
        /\ response.status = 200
        /\ response.content.current_phase = "initializing"
        /\ response.content.total_files = 2

\* Display name n with its extension - what follows its last dot, the dot
\* included - replaced by .mp4.
ReplaceExtension(n) ==
    (IF "." \in Range(n) THEN SubSeq(n, 1, LastIndex(n, ".") - 1) ELSE n)
        \o <<".", "m", "p", "4">>

\* C25: for every remote parent identifier p and display name n, once the
\* upload worker has split the base name of the file that the download
\* worker wrote and the conversion worker renamed, the parent identifier it
\* holds is p and the upload name it holds is n with its extension replaced
\* by .mp4.
C25_ParentIdRoundTrip ==
    \A t \in Tasks : \A i \in DOMAIN upload_tasks[t] :
        LET d == download_tasks[t][i]
            u == upload_tasks[t][i]
        IN  (d.parent_id # <<>> /\ u.pc \notin {"queued", "raised"})
               => /\ u.parent_id = d.parent_id
                  /\ u.filename = ReplaceExtension(d.filename)

\* The completed list of a stage, and the stage a kind of failure entry
\* belongs to.
CompletedOf(stage) ==
    CASE stage = "download"   -> "completed_downloads"
      [] stage = "conversion" -> "completed_conversions"
      [] stage = "upload"     -> "completed_uploads"

StageOf(kind) ==
    CASE kind = "Download failed" -> "download"
      [] kind \in {"Conversion failed", "Conversion error"} -> "conversion"
      [] kind = "Upload failed" -> "upload"

\* A worker of the stage was started for the file called name: its
\* coroutine was made by the orchestrator and has begun to run.
StartedFor(stage, t, name) ==
    \E i \in DOMAIN StageWorkers(stage, t) :
        /\ FileName(stage, t, i) = name
        /\ StageWorkers(stage, t)[i].pc # "queued"

\* C26: in every state and for each phase, every name in the phase's
\* completed list and every file named by a failure entry of that phase
\* belongs to a file for which a worker of that phase was started.
C26_RecordedFilesEnteredPhase ==
    \A t \in Created :
        /\ \A stage \in Stages :
              \A name \in BagToSet(progress_state[t][CompletedOf(stage)]) :
                 StartedFor(stage, t, name)
        /\ \A e \in BagToSet(progress_state[t].failed_files) :
              StartedFor(StageOf(e[1]), t, e[2])

\* A batch of two files: the conversion of one has failed, so that it never
\* entered the upload phase, and the other one is uploaded.
C26_Witness ==
    \E t \in Created :
        /\ Len(file_ids[t]) = 2
        /\ Failures(t, "Conversion error") = 1
        /\ Cardinality(DOMAIN upload_tasks[t]) = 1
        /\ Len_(progress_state[t].completed_uploads) = 1

\* The active map and the completed list of the phase a record is in.
ActiveOf(rec) ==
    CASE rec.current_phase = "downloading" -> rec.active_downloads
      [] rec.current_phase = "converting"  -> rec.active_conversions
      [] rec.current_phase = "uploading"   -> rec.active_uploads

CompletedCount(rec) ==
    CASE rec.current_phase = "downloading" -> Len_(rec.completed_downloads)
      [] rec.current_phase = "converting"  -> Len_(rec.completed_conversions)
      [] rec.current_phase = "uploading"   -> Len_(rec.completed_uploads)

WorkingPhases == {"downloading", "converting", "uploading"}

\* C27: in phase downloading, converting or uploading with total_files > 0,
\* phase_progress = min(100, floor(100 * (completed_count + sum(active
\* percents) / 100) / total_files)), with the completed list and the active
\* map of the current phase.
C27_PhaseProgressFormula ==
    \A t \in Created :
        LET rec == progress_state[t] IN
        (rec.current_phase \in WorkingPhases /\ rec.total_files > 0)
            => rec.phase_progress =
                  Min(100, (100 * CompletedCount(rec)
                              + SumOver(ActiveOf(rec), DOMAIN ActiveOf(rec)))
                           \div rec.total_files)

\* The static schedule: floor and weight of a working phase.
PhaseFloor(phase) ==
    CASE phase = "downloading" -> 5
      [] phase = "converting"  -> 35
      [] phase = "uploading"   -> 75

PhaseWeight(phase) ==
    CASE phase = "downloading" -> 30
      [] phase = "converting"  -> 40
      [] phase = "uploading"   -> 25

\* C28: in a working phase with total_files > 0, overall_progress is the
\* phase floor plus the phase weight times the (capped) phase_progress of
\* the same record divided by 100, and so lies in [5,35] while downloading,
\* [35,75] while converting and [75,100] while uploading.
C28_OverallFromPhaseProgress ==
    \A t \in Created :
        LET rec   == progress_state[t]
            floor == PhaseFloor(rec.current_phase)
            top   == floor + PhaseWeight(rec.current_phase)
        IN  (rec.current_phase \in WorkingPhases /\ rec.total_files > 0)
               => /\ rec.overall_progress =
                        floor + (PhaseWeight(rec.current_phase)
                                    * rec.phase_progress) \div 100
                  /\ rec.overall_progress \in floor..top

\* C29: the overall_progress of a task (here: one with at least one file)
\* never decreases from one state to the next - not within a phase, not
\* across a phase transition, not in the step to the task's final state.
\* The percentages a worker reports for its file never decrease.
C29_OverallNeverDecreases ==
    [][\A t \in Created :
          progress_state[t].total_files > 0
             => progress_state'[t].overall_progress
                   >= progress_state[t].overall_progress]_vars

\* C30: for every byte range of an upload the number of send attempts is at
\* most 5, whatever mix of non-success statuses and client errors answers
\* them, and the sent-range counter and the reported upload percentage
\* (ranges sent / total ranges * 100) advance only in a step in which an
\* attempt of that range is answered 200, 201 or 202.
C30_BoundedAttemptsAdvanceOnSuccess ==
    /\ [](\A ti \in UploadWorkers :
            LET w == Worker(ti) IN
            /\ w.attempt <= 5
            /\ Len(w.statuses) <= 5
            /\ ( /\ w.pc \in {"sending", "backoff"}
                  /\ UploadName(ti[1], ti[2]) \in DOMAIN progress_state[ti[1]].active_uploads )
                  => progress_state[ti[1]].active_uploads[UploadName(ti[1], ti[2])]
                        = IF w.uploaded_chunks = 0 THEN 0
                          ELSE PercentOf(w.uploaded_chunks, ChunkNumber(w.total_size)))
    /\ [][\A ti \in UploadWorkers :
            LET w    == Worker(ti)
                w2   == Worker(ti)'
                name == UploadName(ti[1], ti[2])
                old  == progress_state[ti[1]].active_uploads
                new  == progress_state'[ti[1]].active_uploads
            IN  /\ w2.uploaded_chunks # w.uploaded_chunks
                      => /\ w2.uploaded_chunks = w.uploaded_chunks + 1
                         /\ Len(w2.statuses) = w.attempt
                         /\ Last(w2.statuses) \in {200, 201, 202}
                         /\ w2.range = ChunkRange(w.uploaded_chunks, w.total_size)
                /\ (name \in DOMAIN old /\ name \in DOMAIN new /\ new[name] # old[name])
                      => /\ w2.uploaded_chunks = w.uploaded_chunks + 1
                         /\ Last(w2.statuses) \in {200, 201, 202}
                         /\ new[name] = PercentOf(w2.uploaded_chunks,
                                                  ChunkNumber(w.total_size))]_vars

\* The second of two ranges is accepted at its fifth attempt, after client
\* errors and non-success statuses.
C30_Witness ==
    \E ti \in UploadWorkers :
        LET w == Worker(ti) IN
        /\ w.uploaded_chunks = 2
        /\ Len(w.statuses) = 5
        /\ ClientError \in {w.statuses[k] : k \in 1..4}
        /\ 500 \in {w.statuses[k] : k \in 1..4}
        /\ w.statuses[5] \in {200, 201, 202}
        /\ progress_state[ti[1]].active_uploads[UploadName(ti[1], ti[2])] = 100

\* C31: a read timeout on the encoder's diagnostic stream never ends the
\* conversion worker and never records a failure.  The step of a timeout
\* changes nothing but the worker's count of timeouts: the worker is still
\* in its read loop, the task's record and the permits are as they were.
\* After any number of timeouts in a row the worker can still end with the
\* encoder's exit code 0, and a worker leaves the read loop only in the step
\* that follows the end of the stream or a read error: the wait for the
\* encoder's exit code.
C31_TimeoutContinuesPolling ==
    /\ [](\A t \in Tasks : \A i \in DOMAIN conversion_tasks[t] :
            conversion_tasks[t][i].timeouts > 0
               => /\ conversion_tasks[t][i].pc = "reading"
                  /\ ENABLED convert_exit(t, i, 0))
    /\ [][\A t \in Tasks : \A i \in DOMAIN conversion_tasks[t] :
            LET w  == conversion_tasks[t][i]
                w2 == conversion_tasks'[t][i]
            IN  /\ w2.timeouts > w.timeouts
                      => /\ w2 = [w EXCEPT !.timeouts = @ + 1]
                         /\ w2.pc = "reading"
                         /\ progress_state' = progress_state
                         /\ semaphores' = semaphores
                /\ (w.pc = "reading" /\ w2.pc # "reading")
                      => \E returncode \in {0, 1} : convert_exit(t, i, returncode)]_vars

\* A conversion that has reported 57 percent and has, since then, met
\* MaxTimeouts timeouts in a row, with no failure entry in the task's record.
C31_Witness ==
    \E t \in Created : \E i \in DOMAIN conversion_tasks[t] :
        /\ conversion_tasks[t][i].pc = "reading"
        /\ conversion_tasks[t][i].percent = 57
        /\ conversion_tasks[t][i].timeouts >= 2
        /\ progress_state[t].failed_files = EmptyBag

\* The progress basis of a conversion worker in its read loop: the time
\* counter against the duration, the frame counter against the frame count,
\* or none when neither total is known.
Basis(w) ==
    IF ~use_frames(w) THEN "time"
    ELSE IF total_frames(w) # None THEN "frame" ELSE "none"

\* C32: a conversion whose encoder exits with code 0 marks the file
\* complete and returns the output path, whichever progress basis was in
\* use.  (1) A worker in its read loop can always end with exit code 0,
\* also with no basis at all.  (2) The step of exit code 0 ends the worker
\* as returned with its path, removes the file's name from
\* active_conversions, leaves it exactly once in completed_conversions,
\* counts it in files_completed and adds no failure entry.
C32_ExitZeroCompletes ==
    /\ [](\A t \in Tasks : \A i \in DOMAIN conversion_tasks[t] :
            conversion_tasks[t][i].pc = "reading"
               => ENABLED convert_exit(t, i, 0))
    /\ [][\A t \in Tasks : \A i \in DOMAIN conversion_tasks[t] :
            LET w    == conversion_tasks[t][i]
                w2   == conversion_tasks'[t][i]
                name == w.vob_path
                new  == progress_state'[t]
            IN  convert_exit(t, i, 0)
                   => /\ w2.pc = "returned"
                      /\ w2.vob_path = w.vob_path
                      /\ name \notin DOMAIN new.active_conversions
                      /\ CopiesIn(name, new.completed_conversions) = 1
                      /\ new.files_completed = Len_(new.completed_conversions)
                      /\ new.files_completed >= 1
                      /\ new.failed_files = progress_state[t].failed_files]_vars

\* A conversion for which neither a duration nor a frame count was found:
\* it is in its read loop, registered with 0 percent, has met a read timeout
\* and can end with exit code 0.
C32_Witness ==
    \E t \in Created : \E i \in DOMAIN conversion_tasks[t] :
        LET w == conversion_tasks[t][i] IN
        /\ w.pc = "reading"
        /\ Basis(w) = "none"
        /\ w.timeouts > 0
        /\ progress_state[t].active_conversions[w.vob_path] = 0
        /\ ENABLED convert_exit(t, i, 0)

\* C33: a download worker that fails at any step (token exchange, metadata
\* call, content request, disk write) appends exactly one entry to the
\* task's failed_files, leaves completed_downloads unchanged and ends with
\* an exception; once it has ended it takes no further step, so the file's
\* content is not requested a second time.
C33_DownloadFailureRecordedOnce ==
    /\ [](\A t \in Tasks : \A i \in DOMAIN download_tasks[t] :
            download_tasks[t][i].pc = "raised"
               => ~ENABLED WorkerStep("download", t, i))
    /\ [][\A t \in Tasks : \A i \in DOMAIN download_tasks[t] :
            (download_tasks[t][i].pc # "raised" /\ download_tasks'[t][i].pc = "raised")
               => /\ Len_(progress_state'[t].failed_files)
                        = Len_(progress_state[t].failed_files) + 1
                  /\ progress_state'[t].completed_downloads
                        = progress_state[t].completed_downloads]_vars

\* The active map of a stage.
ActiveOfStage(stage) ==
    CASE stage = "download"   -> "active_downloads"
      [] stage = "conversion" -> "active_conversions"
      [] stage = "upload"     -> "active_uploads"

\* C34: when a file's worker of a stage finishes, by success or by failure,
\* the file's entry is removed from that stage's active map: after the step
\* in which the worker ends its file's name is no key of the map.  Hence
\* in the task's final snapshot active_downloads, active_conversions and
\* active_uploads are all empty and current_file is empty.
C34_ActiveMapsEmptiedAtEnd ==
    /\ [][\A t \in Tasks, stage \in Stages :
            \A i \in DOMAIN StageWorkers(stage, t) :
               (~Ended(StageWorkers(stage, t)[i]) /\ Ended(StageWorkers(stage, t)'[i]))
                  => FileName(stage, t, i)
                        \notin DOMAIN progress_state'[t][ActiveOfStage(stage)]]_vars
    /\ [](\A t \in Created :
            pc[t] = "done"
               => /\ \A m \in ActiveMaps : DOMAIN progress_state[t][m] = {}
                  /\ progress_state[t].current_file = {})

\* C35: in every reachable state and for each phase, no item name is both
\* a key of the phase's active map and a member of the phase's completed
\* list, and a completed list never contains the same name twice - also
\* when the same file id appears more than once in the submitted batch.
C35_ActiveAndCompletedDisjoint ==
    \A t \in Created : \A stage \in Stages :
        LET active    == progress_state[t][ActiveOfStage(stage)]
            completed == progress_state[t][CompletedOf(stage)]
        IN  /\ \A name \in DOMAIN active : ~BagIn(name, completed)
            /\ \A name \in BagToSet(completed) : CopiesIn(name, completed) = 1

\* Task t was submitted with N >= 1 different file ids.
DistinctBatch(t) ==
    /\ Len(file_ids[t]) >= 1
    /\ \A i, j \in DOMAIN file_ids[t] : file_ids[t][i] = file_ids[t][j] => i = j

\* Every file of task t's batch came out of the stage, and the orchestrator
\* has not left the stage's phase yet: the record is the last snapshot of
\* that phase.
AllThrough(stage, t) ==
    /\ Running(stage, t)
    /\ Returned(StageWorkers(stage, t)) = DOMAIN file_ids[t]

\* C36: for a batch of N >= 1 distinct files that all succeed in every
\* stage, phase_progress is 100 in the last snapshot of each of the phases
\* downloading, converting and uploading, and overall_progress in those
\* snapshots is 35, 75 and 100.
C36_PhasesEndAtHundred ==
    \A t \in Created :
        DistinctBatch(t)
           => /\ AllThrough("download", t)
                    => /\ progress_state[t].phase_progress = 100
                       /\ progress_state[t].overall_progress = 35
              /\ AllThrough("conversion", t)
                    => /\ progress_state[t].phase_progress = 100
                       /\ progress_state[t].overall_progress = 75
              /\ AllThrough("upload", t)
                    => /\ progress_state[t].phase_progress = 100
                       /\ progress_state[t].overall_progress = 100

\* Workers of task t that wait for a permit of the stage.
Waiting(stage, t) ==
    {i \in DOMAIN StageWorkers(stage, t) : StageWorkers(stage, t)[i].pc = "queued"}

\* Task t is over: no worker of its three stages waits for a permit, all of
\* them have ended, its gathers have returned and its record is in a final
\* phase.
Settled(t) ==
    /\ pc[t] = "done"
    /\ \A stage \in Stages :
          /\ Waiting(stage, t) = {}
          /\ \A i \in DOMAIN StageWorkers(stage, t) :
                Ended(StageWorkers(stage, t)[i])
    /\ Phase(t) \in {"completed", "failed"}

\* C37: whatever the number of files - also one more than a class has
\* permits - and whichever files fail, provided every remote call and every
\* encoder run returns: whenever a submitted task is not over - a worker
\* of it waits for a permit or runs, or a stage is still to come -
\* eventually every submitted task is over.  A worker leaves the queue only
\* by acquiring a permit, so every worker that waited has acquired one.
C37_EveryTaskEnds ==
    (\E t \in Tasks : pc[t] # "unsubmitted" /\ ~Settled(t))
        ~> (\A t \in Tasks : pc[t] # "unsubmitted" => Settled(t))

\* A task of one file more than a class has permits is over: the download
\* of one file failed, the other CONCURRENT files went through all three
\* stages.
C37_Witness ==
    \E t \in Created :
        /\ pc[t] = "done"
        /\ Len(file_ids[t]) = CONCURRENT + 1
        /\ Failures(t, "Download failed") = 1
        /\ Cardinality(Uploaded(t)) = CONCURRENT

\* C38: over the run of a task the refund collaborator is invoked at most
\* once, and once it has been invoked the upload gather of the task has
\* returned: every upload worker of the task has ended.
C38_RefundOnceAfterUploads ==
    \A t \in Tasks :
        /\ refunds[t] <= 1
        /\ refunds[t] = 1
              => /\ StagesOver(t)
                 /\ \A i \in DOMAIN upload_tasks[t] : Ended(upload_tasks[t][i])

\* A task of two uploads, one uploaded and one failed, is over and its
\* refund was requested.
C38_Witness ==
    \E t \in Created :
        /\ pc[t] = "done"
        /\ refunds[t] = 1
        /\ \E i, j \in DOMAIN upload_tasks[t] :
              /\ upload_tasks[t][i].pc = "returned"
              /\ upload_tasks[t][j].pc = "raised"

====
